---- MODULE Spec2Model ----
(***************************************************************************)
(* Daily Collection Dashboard (src/app.py): the Streamlit script that      *)
(* loads a Google-Sheet CSV export with load_data, maps the KPI columns    *)
(* with find_col, filters by the sidebar widgets and renders the tabs.     *)
(*                                                                         *)
(* Text is a sequence of one-character strings, so that strip, upper,      *)
(* replace, substring search and the numeric and date parsers are          *)
(* computed character by character.  Amounts are fixed-point, scaled by    *)
(* 100 (1234.50 is 123450).  A date is the integer yyyymmdd.               *)
(*                                                                         *)
(* src/app.py holds the script three times over (lines 1-195, 196-390,     *)
(* 391-585), each copy the same text; the model is of one pass through     *)
(* the script, and the line numbers are those of the first copy.           *)
(***************************************************************************)
EXTENDS Integers, Sequences, FiniteSets, TLC

\* ------------------------------------------------------------------ bounds
\* Edits of the source sheet in one behaviour.
MaxEdits == 2

\* ------------------------------------------------------------- characters
Lower == <<"a","b","c","d","e","f","g","h","i","j","k","l","m",
           "n","o","p","q","r","s","t","u","v","w","x","y","z">>
Upper == <<"A","B","C","D","E","F","G","H","I","J","K","L","M",
           "N","O","P","Q","R","S","T","U","V","W","X","Y","Z">>
Digits == <<"0","1","2","3","4","5","6","7","8","9">>

IsDigit(c) == \E i \in 1..10 : Digits[i] = c
DigitVal(c) == (CHOOSE i \in 1..10 : Digits[i] = c) - 1

\* str.upper on one character
UpperChar(c) ==
    IF \E i \in 1..26 : Lower[i] = c
    THEN Upper[CHOOSE i \in 1..26 : Lower[i] = c]
    ELSE c

\* str.upper
StrUpper(s) == [i \in 1..Len(s) |-> UpperChar(s[i])]

\* str.replace(old, new) for one-character old and new
StrReplace(s, old, new) == [i \in 1..Len(s) |-> IF s[i] = old THEN new ELSE s[i]]

RECURSIVE LStrip(_)
LStrip(s) == IF s # <<>> /\ Head(s) = " " THEN LStrip(Tail(s)) ELSE s

RECURSIVE RStrip(_)
RStrip(s) ==
    IF s # <<>> /\ s[Len(s)] = " " THEN RStrip(SubSeq(s, 1, Len(s) - 1)) ELSE s

\* str.strip
StrStrip(s) == RStrip(LStrip(s))

\* Python's `kw in s` on strings
Contains(s, kw) ==
    \E i \in 1..(Len(s) - Len(kw) + 1) : SubSeq(s, i, i + Len(kw) - 1) = kw

\* ------------------------------------------------------------ cell values
\* One shape for every value of a DataFrame cell: t is the kind, n the
\* number (scaled amount, or yyyymmdd of a date), s the text.
NaN == [t |-> "nan", n |-> 0, s |-> <<>>]
NaT == [t |-> "nat", n |-> 0, s |-> <<>>]
NumV(x) == [t |-> "num", n |-> x, s |-> <<>>]
TxtV(x) == [t |-> "txt", n |-> 0, s |-> x]
DateV(d) == [t |-> "date", n |-> d, s |-> <<>>]
\* int64 nanoseconds since the epoch of date d (d = 0: of NaT, the minimum)
EpochV(d) == [t |-> "ns", n |-> d, s |-> <<>>]

\* --------------------------------------------------------------- read_csv
T_nan == <<"n","a","n">>
T_NaN == <<"N","a","N">>
T_NA == <<"N","A">>

\* pd.read_csv(header=None): an empty field, and the default NA words, are
\* read as NaN; every other field of a column that holds text stays text.
ReadCell(x) == IF x \in {<<>>, T_nan, T_NaN, T_NA} THEN NaN ELSE TxtV(x)

read_csv(sheet) ==
    [r \in 1..Len(sheet) |-> [c \in 1..Len(sheet[r]) |-> ReadCell(sheet[r][c])]]

\* ------------------------------------------------------------- to_numeric
RECURSIVE DigitsVal(_)
DigitsVal(s) ==
    IF s = <<>> THEN 0 ELSE 10 * DigitsVal(SubSeq(s, 1, Len(s) - 1)) + DigitVal(s[Len(s)])

AllDigits(s) == \A i \in 1..Len(s) : IsDigit(s[i])

DotAt(s) == IF \E i \in 1..Len(s) : s[i] = "."
            THEN CHOOSE i \in 1..Len(s) : s[i] = "." /\ \A j \in 1..(i - 1) : s[j] # "."
            ELSE 0

\* The fraction's first two digits, as hundredths.
Hundredths(f) ==
    IF Len(f) = 0 THEN 0
    ELSE IF Len(f) = 1 THEN 10 * DigitVal(f[1])
    ELSE 10 * DigitVal(f[1]) + DigitVal(f[2])

\* An unsigned decimal numeral: digits, or digits "." digits.
IsUnsigned(s) ==
    LET d == DotAt(s) IN
    IF d = 0 THEN s # <<>> /\ AllDigits(s)
    ELSE /\ AllDigits(SubSeq(s, 1, d - 1))
         /\ AllDigits(SubSeq(s, d + 1, Len(s)))
         /\ Len(s) > 1

UnsignedVal(s) ==
    LET d == DotAt(s) IN
    IF d = 0 THEN 100 * DigitsVal(s)
    ELSE 100 * DigitsVal(SubSeq(s, 1, d - 1)) + Hundredths(SubSeq(s, d + 1, Len(s)))

\* The string parser of pd.to_numeric(errors="coerce"): a decimal numeral
\* (optionally signed) is its value, anything else (a comma, a currency
\* glyph, a word) is NaN.
ParseNumber(s) ==
    IF s # <<>> /\ Head(s) = "-" /\ IsUnsigned(Tail(s)) THEN NumV(0 - UnsignedVal(Tail(s)))
    ELSE IF IsUnsigned(s) THEN NumV(UnsignedVal(s))
    ELSE NaN

\* pd.to_numeric(errors="coerce") on one element of a Series
to_numeric(v) ==
    CASE v.t = "txt" -> ParseNumber(v.s)
      [] v.t = "date" -> EpochV(v.n)
      [] v.t = "nat" -> EpochV(0)
      [] OTHER -> v

\* Series.fillna(0) on one element
fillna0(v) == IF v.t = "nan" THEN NumV(0) ELSE v

\* ------------------------------------------------------------ to_datetime
DaysIn(y, m) ==
    IF m \in {4, 6, 9, 11} THEN 30
    ELSE IF m = 2 THEN (IF y % 4 = 0 /\ (y % 100 # 0 \/ y % 400 = 0) THEN 29 ELSE 28)
    ELSE 31

\* The text of an ISO date yyyy-mm-dd, and its date.
IsIsoDate(s) ==
    /\ Len(s) = 10
    /\ s[5] = "-" /\ s[8] = "-"
    /\ AllDigits(SubSeq(s, 1, 4)) /\ AllDigits(SubSeq(s, 6, 7)) /\ AllDigits(SubSeq(s, 9, 10))
    /\ LET y == DigitsVal(SubSeq(s, 1, 4))
           m == DigitsVal(SubSeq(s, 6, 7))
           d == DigitsVal(SubSeq(s, 9, 10))
       IN m \in 1..12 /\ d \in 1..DaysIn(y, m)

IsoDateVal(s) ==
    10000 * DigitsVal(SubSeq(s, 1, 4)) + 100 * DigitsVal(SubSeq(s, 6, 7))
        + DigitsVal(SubSeq(s, 9, 10))

\* pd.to_datetime(errors="coerce") on one element: a date, or NaT for a
\* missing cell and for text that is no date.
to_datetime(v) ==
    IF v.t = "txt" /\ IsIsoDate(v.s) THEN DateV(IsoDateVal(v.s))
    ELSE IF v.t = "date" THEN v
    ELSE NaT

\* -------------------------------------------------------------- DataFrame
\* A DataFrame: its column labels, and its rows in order, each with its
\* index label (the 0-based number of the row in the raw grid) and one cell
\* per column.
EmptyDf == [columns |-> <<>>, rows |-> <<>>]

Positions(df, key) == {c \in 1..Len(df.columns) : df.columns[c] = key}

\* the first column labelled key
PosOf(df, key) == CHOOSE c \in Positions(df, key) : \A d \in Positions(df, key) : c <= d

\* df[key] = vals: every column labelled key is replaced; when there is
\* none, a new column is appended.
SetItem(df, key, vals) ==
    IF Positions(df, key) # {}
    THEN [df EXCEPT !.rows =
            [r \in 1..Len(df.rows) |->
                [df.rows[r] EXCEPT !.cells =
                    [c \in 1..Len(df.columns) |->
                        IF df.columns[c] = key THEN vals[r] ELSE df.rows[r].cells[c]]]]]
    ELSE [columns |-> Append(df.columns, key),
          rows |-> [r \in 1..Len(df.rows) |->
                      [df.rows[r] EXCEPT !.cells = Append(df.rows[r].cells, vals[r])]]]

RECURSIVE SelectRows(_, _)
\* the rows whose entry in the boolean mask is TRUE, in order (df[mask])
SelectRows(rows, mask) ==
    IF rows = <<>> THEN <<>>
    ELSE IF Head(mask) THEN <<Head(rows)>> \o SelectRows(Tail(rows), Tail(mask))
    ELSE SelectRows(Tail(rows), Tail(mask))

\* the digits of n, in w characters
RECURSIVE FormatInt(_, _)
FormatInt(n, w) == IF w = 0 THEN <<>> ELSE Append(FormatInt(n \div 10, w - 1), Digits[(n % 10) + 1])

T_NaT == <<"N","a","T">>

\* Series.astype(str) on one element
astype_str(v) ==
    CASE v.t = "txt" -> v.s
      [] v.t = "nan" -> T_nan
      [] v.t = "nat" -> T_NaT
      [] v.t = "date" -> FormatInt(v.n \div 10000, 4) \o <<"-">>
                           \o FormatInt((v.n \div 100) % 100, 2) \o <<"-">>
                           \o FormatInt(v.n % 100, 2)
      [] OTHER -> <<>>

\* -------------------------------------------------------------- load_data
HEADER_ROW_INDEX == 3

T_DATE == <<"D","A","T","E">>
T_SHIFT == <<"S","H","I","F","T">>

T_DAY == <<"D","A","Y">>

\* a row with a cell that contains DATE or DAY, whatever the case
IsKeywordRow(cells) ==
    \E c \in 1..Len(cells) :
        /\ cells[c].t = "txt"
        /\ (Contains(StrUpper(cells[c].s), T_DATE) \/ Contains(StrUpper(cells[c].s), T_DAY))

KeywordRows(raw) == {r \in 0..(Len(raw) - 1) : IsKeywordRow(raw[r + 1])}

\* the first such row, by the specification's Header Locator
FirstKeywordRow(raw) == CHOOSE r \in KeywordRows(raw) : \A q \in KeywordRows(raw) : r <= q

\* HeaderRow as a keyword scan: the first keyword row, and past the grid's
\* end when there is none
HeaderRow_Scan(raw) == IF KeywordRows(raw) = {} THEN Len(raw) ELSE FirstKeywordRow(raw)

\* The 0-based row that holds the column names.
HeaderRow(raw) == HEADER_ROW_INDEX

\* df.columns.astype(str).str.strip().str.upper().str.replace(" ", "_")
CleanColumn(v) == StrReplace(StrUpper(StrStrip(astype_str(v))), " ", "_")

\* df.dropna(how="all")
DropEmptyRows(rows) ==
    SelectRows(rows, [r \in 1..Len(rows) |->
                        \E c \in 1..Len(rows[r].cells) : rows[r].cells[c].t # "nan"])

\* df[col] = pd.to_numeric(df[col], errors="coerce").fillna(0)
CoerceCell(v) == fillna0(to_numeric(v))

RECURSIVE NumericLoop(_, _, _)
\* for col in df.columns[2:]: the labels are read once, before the loop.
\* df[col] of a label that occurs twice is a DataFrame, and pd.to_numeric
\* raises TypeError on it.
NumericLoop(df, cols, k) ==
    IF k > Len(cols) THEN [ok |-> TRUE, err |-> "", df |-> df]
    ELSE IF Cardinality(Positions(df, cols[k])) > 1
    THEN [ok |-> FALSE, err |-> "load_data: TypeError", df |-> EmptyDf]
    ELSE NumericLoop(
            SetItem(df, cols[k],
                    [r \in 1..Len(df.rows) |-> CoerceCell(df.rows[r].cells[PosOf(df, cols[k])])]),
            cols, k + 1)

\* The body of load_data on the grid read_csv returned: the table, or the
\* exception it raises.
load_data(raw) ==
    LET h == HeaderRow(raw) IN
    IF h >= Len(raw)
    THEN [ok |-> FALSE, err |-> "load_data: IndexError", df |-> EmptyDf]
    ELSE
      LET columns == [c \in 1..Len(raw[h + 1]) |-> CleanColumn(raw[h + 1][c])]
          below == [i \in 1..(Len(raw) - h - 1) |-> [idx |-> h + i, cells |-> raw[h + 1 + i]]]
          df0 == [columns |-> columns, rows |-> DropEmptyRows(below)]
          df1 == SetItem(df0, T_DATE,
                         [r \in 1..Len(df0.rows) |-> to_datetime(df0.rows[r].cells[1])])
          df2 == SetItem(df1, T_SHIFT,
                         [r \in 1..Len(df1.rows) |-> TxtV(StrStrip(astype_str(df1.rows[r].cells[2])))])
      IN NumericLoop(df2, SubSeq(df2.columns, 3, Len(df2.columns)), 1)

\* st.cache_data on a function without arguments: one entry, kept for the
\* life of the server process (no ttl is given).  A call that raises stores
\* nothing.
NoCache == [filled |-> FALSE, val |-> EmptyDf]

\* CachedCall without the lookup: the body runs on every call
CachedCall_NoMemo(c, grid) ==
    LET r == load_data(read_csv(grid)) IN
    [res |-> r, cache |-> IF r.ok THEN [filled |-> TRUE, val |-> r.df] ELSE c]

\* A call of the decorated load_data while the sheet holds `grid`: the
\* result returned to the script and the cache afterwards.
CachedCall(c, grid) ==
    IF c.filled
    THEN [res |-> [ok |-> TRUE, err |-> "", df |-> c.val], cache |-> c]
    ELSE LET r == load_data(read_csv(grid)) IN
         [res |-> r, cache |-> IF r.ok THEN [filled |-> TRUE, val |-> r.df] ELSE c]

\* --------------------------------------------------------------- find_col
T_CASH == <<"C","A","S","H">>
T_RTGS == <<"R","T","G","S">>
T_PID == <<"P","I","D">>
T_TOTAL == <<"T","O","T","A","L">>

\* the keywords of the four lookups, in the order of the calls
KpiKeywords == <<T_CASH, T_RTGS, T_PID, T_TOTAL>>

\* find_col that falls back to the first column instead of stopping
find_col_Fallback(d, keyword) ==
    LET hits == {c \in 1..Len(d.columns) : Contains(d.columns[c], keyword)} IN
    IF hits = {} THEN [ok |-> TRUE, col |-> d.columns[1]]
    ELSE [ok |-> TRUE, col |-> d.columns[CHOOSE c \in hits : \A e \in hits : c <= e]]

\* find_col(keyword): the first column whose name contains the keyword;
\* without one, st.error and st.stop().
find_col(d, keyword) ==
    LET hits == {c \in 1..Len(d.columns) : Contains(d.columns[c], keyword)} IN
    IF hits = {} THEN [ok |-> FALSE, col |-> <<>>]
    ELSE [ok |-> TRUE, col |-> d.columns[CHOOSE c \in hits : \A e \in hits : c <= e]]

\* ---------------------------------------------------------------- sidebar
\* df["DATE"] and df["SHIFT"] are each one column, and DATE holds datetimes:
\* otherwise st.date_input or the multiselect raises.
WidgetsUsable(d) ==
    /\ Cardinality(Positions(d, T_DATE)) = 1
    /\ Cardinality(Positions(d, T_SHIFT)) = 1
    /\ \A r \in 1..Len(d.rows) : d.rows[r].cells[PosOf(d, T_DATE)].t \in {"date", "nat"}

DateOf(d, row) == row.cells[PosOf(d, T_DATE)]
ShiftOf(d, row) == row.cells[PosOf(d, T_SHIFT)]

\* the valid dates of df["DATE"]
DatesOf(d) == {DateOf(d, d.rows[r]).n : r \in {q \in 1..Len(d.rows) : DateOf(d, d.rows[q]).t = "date"}}

\* df["SHIFT"].unique()
ShiftsOf(d) == {ShiftOf(d, d.rows[r]) : r \in 1..Len(d.rows)}

\* A comparison of a datetime cell with a bound: False when either is NaT.
DateGE(v, b) == v.t = "date" /\ b.t = "date" /\ v.n >= b.n
DateLE(v, b) == v.t = "date" /\ b.t = "date" /\ v.n <= b.n

\* FilterMask that lets a row without a date through
FilterMask_KeepNaT(d, range, shifts) ==
    [r \in 1..Len(d.rows) |->
        /\ \/ DateOf(d, d.rows[r]).t = "nat"
           \/ /\ DateGE(DateOf(d, d.rows[r]), range[1])
              /\ DateLE(DateOf(d, d.rows[r]), range[2])
        /\ ShiftOf(d, d.rows[r]) \in shifts]

\* the boolean mask of filtered_df
FilterMask(d, range, shifts) ==
    [r \in 1..Len(d.rows) |->
        /\ DateGE(DateOf(d, d.rows[r]), range[1])
        /\ DateLE(DateOf(d, d.rows[r]), range[2])
        /\ ShiftOf(d, d.rows[r]) \in shifts]

\* filtered_df
Filtered(d, range, shifts) == SelectRows(d.rows, FilterMask(d, range, shifts))

\* ---------------------------------------------------------------- groupby
RECURSIVE SumCells(_, _)
\* Series.sum() of the column at position c over rows
SumCells(rows, c) == IF rows = <<>> THEN 0 ELSE Head(rows).cells[c].n + SumCells(Tail(rows), c)

\* the positions of CASH_COL, RTGS_COL, PID_COL, TOTAL_COL
KpiPos(d, cols) == [k \in 1..4 |-> PosOf(d, cols[k])]

\* the four sums over rows
KpiSums(d, cols, rows) == [k \in 1..4 |-> SumCells(rows, KpiPos(d, cols)[k])]

\* the group key of a row: its cells in the key columns
KeyOf(row, keypos) == [i \in 1..Len(keypos) |-> row.cells[keypos[i]]]

\* groupby(keys).agg(sum): one entry per key that occurs and has no missing
\* part (groupby drops missing keys), holding the four sums of its rows.
\* The order of the groups is not kept.
GroupBy(d, cols, rows, keypos) ==
    LET present == {q \in 1..Len(rows) :
                      \A i \in 1..Len(keypos) : rows[q].cells[keypos[i]].t \notin {"nan", "nat"}}
        keys == {KeyOf(rows[r], keypos) : r \in present}
    IN [key \in keys |->
          KpiSums(d, cols, SelectRows(rows, [r \in 1..Len(rows) |-> KeyOf(rows[r], keypos) = key]))]

RECURSIVE SumGroups(_, _)
\* the sum over the groups of their k-th sum (daily[col].sum())
SumGroups(g, k) ==
    IF DOMAIN g = {} THEN 0
    ELSE LET key == CHOOSE x \in DOMAIN g : TRUE IN
         g[key][k] + SumGroups([x \in (DOMAIN g) \ {key} |-> g[x]], k)

\* every KPI column holds numbers
KpiNumeric(d, cols, rows) ==
    \A k \in 1..4 : \A r \in 1..Len(rows) : rows[r].cells[KpiPos(d, cols)[k]].t = "num"

NoGroups == [x \in {} |-> <<>>]
NoSums == <<0, 0, 0, 0>>

\* ------------------------------------------------------ the source sheet
\* The sheet is a grid of text fields, six to a row.  The behaviours start
\* from one of BaseSheets and edit it with SheetEdits.
Blank == <<>>
D_0101 == <<"2","0","2","6","-","0","1","-","0","1">>
D_0102 == <<"2","0","2","6","-","0","1","-","0","2">>
X_Closed == <<"C","l","o","s","e","d">>
X_Report == <<"R","e","p","o","r","t">>
X_DayBook == <<"D","a","y"," ","b","o","o","k">>
A_1000 == <<"1","0","0","0">>
A_200 == <<"2","0","0">>
A_30 == <<"3","0">>
A_1230 == <<"1","2","3","0">>
A_2000 == <<"2","0","0","0">>
A_3000 == <<"3","0","0","0">>
A_3230 == <<"3","2","3","0">>
A_500 == <<"5","0","0">>
A_0 == <<"0">>
A_5 == <<"5">>
A_15 == <<"1","5">>
A_40 == <<"4","0">>
A_250_5 == <<"2","5","0",".","5">>
A_Comma == <<"1",",","2","3","4",".","5","0">>
A_Rupee == <<"₹","5","0","0">>
A_abc == <<"a","b","c">>

BlankRow == <<Blank, Blank, Blank, Blank, Blank, Blank>>
TitleRow == <<X_Report, Blank, Blank, Blank, Blank, Blank>>
DayBookRow == <<X_DayBook, Blank, Blank, Blank, Blank, Blank>>

H_Std == <<T_DATE, T_SHIFT, T_CASH, T_RTGS, T_PID, T_TOTAL>>
H_Raw == << <<" ","D","a","t","e"," ">>, <<"S","h","i","f","t">>,
            <<"C","a","s","h"," ","A","m","t">>, <<"r","t","g","s">>, T_PID,
            <<"G","r","a","n","d"," ","T","o","t","a","l">> >>
H_Day == << <<"D","a","y">>, T_SHIFT, T_CASH, T_RTGS, T_PID, T_TOTAL >>
H_Dup == << T_DATE, T_SHIFT, <<"A","M","O","U","N","T">>, <<"A","M","O","U","N","T">>, T_PID, T_TOTAL >>
H_Unnamed == << Blank, Blank, T_CASH, T_RTGS, T_PID, T_TOTAL >>
H_NoTotal == << T_DATE, T_SHIFT, T_CASH, T_RTGS, T_PID, <<"A","M","O","U","N","T">> >>

HeaderPool == {H_Std, H_Raw, H_Day, H_Dup, H_Unnamed, H_NoTotal}

R_A == <<D_0101, <<"A">>, A_1000, A_200, A_30, A_1230>>
R_B == <<Blank, <<"B">>, A_Comma, A_Rupee, Blank, A_2000>>
R_Total == <<Blank, T_TOTAL, A_3000, A_200, A_30, A_3230>>
R_A2 == <<D_0102, <<"A"," ">>, A_500, A_abc, T_nan, A_500>>
R_B2 == <<D_0102, <<"B">>, A_250_5, A_0, A_0, A_250_5>>
R_Closed == <<X_Closed, <<"C">>, A_5, A_5, A_5, A_15>>
R_Merged == <<Blank, <<"A">>, A_40, A_0, A_0, A_40>>

RowPool == {R_B2, R_Closed, R_Merged, BlankRow}

\* the sheet the script was written for: three rows above the header
SheetStd == <<TitleRow, BlankRow, BlankRow, H_Std, R_A, R_B, R_Total, R_A2>>
\* the same table under a one-row title
SheetTitle == <<TitleRow, H_Std, R_A, R_B, R_Total>>
\* a sheet that ends after the header
SheetShort == <<TitleRow, DayBookRow, H_Std>>
\* a sheet whose only date cell is blank
SheetNoDate == <<TitleRow, BlankRow, BlankRow, H_Std, R_Merged>>

BaseSheets == {SheetStd, SheetTitle, SheetShort, SheetNoDate}

\* One edit of the sheet by its owner: a row appended, the fourth row
\* retitled, or the first row deleted.
SheetEdits(g) ==
    {Append(g, r) : r \in RowPool}
      \cup (IF Len(g) > 3 THEN {[g EXCEPT ![4] = h] : h \in HeaderPool} ELSE {})
      \cup (IF Len(g) > 0 THEN {Tail(g)} ELSE {})

\* ------------------------------------------------------------------ state
VARIABLES
    sheet,            \* the grid the CSV export returns now
    edits,            \* edits of the sheet so far
    cache,            \* the st.cache_data entry of load_data
    cachedFrom,       \* history: the grid the cached call read
    calledWith,       \* history: the grid at the time of the latest call
    pc,               \* the script's position
    df,               \* the module-level df
    found,            \* CASH_COL, RTGS_COL, PID_COL, TOTAL_COL found so far
    date_range,       \* the date_input's value
    selected_shifts,  \* the multiselect's value
    filtered_df,      \* the rows of filtered_df
    daily,            \* Tab 1: the groups of daily
    metrics,          \* Tab 1: the four st.metric values
    shift_daily,      \* Tab 2: the groups by (DATE, SHIFT)
    shift_totals,     \* Tab 2: the groups of shift_totals
    day_metrics,      \* Tab 3: the four st.metric values of the day
    rendered          \* what the page shows of this run

vars == <<sheet, edits, cache, cachedFrom, calledWith, pc, df, found, date_range,
          selected_shifts, filtered_df, daily, metrics, shift_daily, shift_totals,
          day_metrics, rendered>>

runVars == <<df, found, date_range, selected_shifts, filtered_df, daily, metrics,
             shift_daily, shift_totals, day_metrics, rendered>>

RunStart ==
    /\ df = EmptyDf
    /\ found = <<>>
    /\ date_range = <<>>
    /\ selected_shifts = {}
    /\ filtered_df = <<>>
    /\ daily = NoGroups
    /\ metrics = NoSums
    /\ shift_daily = NoGroups
    /\ shift_totals = NoGroups
    /\ day_metrics = NoSums
    /\ rendered = {}

Init ==
    /\ sheet \in BaseSheets
    /\ edits = 0
    /\ cache = NoCache
    /\ cachedFrom = <<>>
    /\ calledWith = <<>>
    /\ pc = "load"
    /\ RunStart

\* The owner of the sheet changes it (between two runs of the script).
EditSheet ==
    /\ pc = "load"
    /\ edits < MaxEdits
    /\ \E g \in SheetEdits(sheet) : sheet' = g
    /\ edits' = edits + 1
    /\ UNCHANGED <<cache, cachedFrom, calledWith, pc, runVars>>

\* df = load_data()
LoadData ==
    /\ pc = "load"
    /\ LET call == CachedCall(cache, sheet) IN
         /\ cache' = call.cache
         /\ cachedFrom' = IF ~cache.filled /\ call.res.ok THEN sheet ELSE cachedFrom
         /\ calledWith' = sheet
         /\ IF call.res.ok
            THEN /\ df' = call.res.df
                 /\ pc' = "find"
                 /\ rendered' = rendered
            ELSE /\ df' = df
                 /\ pc' = "crashed"
                 /\ rendered' = {call.res.err}
    /\ UNCHANGED <<sheet, edits, found, date_range, selected_shifts, filtered_df, daily,
                   metrics, shift_daily, shift_totals, day_metrics>>

\* CASH_COL = find_col("CASH") ... TOTAL_COL = find_col("TOTAL"), one call a step
FindCol ==
    /\ pc = "find"
    /\ LET r == find_col(df, KpiKeywords[Len(found) + 1]) IN
         IF r.ok
         THEN /\ found' = Append(found, r.col)
              /\ pc' = IF Len(found) = 3 THEN "sidebar" ELSE "find"
              /\ rendered' = rendered
         ELSE /\ found' = found
              /\ pc' = "stopped"
              /\ rendered' = rendered \cup {"error"}
    /\ UNCHANGED <<sheet, edits, cache, cachedFrom, calledWith, df, date_range,
                   selected_shifts, filtered_df, daily, metrics, shift_daily,
                   shift_totals, day_metrics>>

\* the sidebar raises: DATE or SHIFT is not one usable column
SidebarRaises ==
    /\ pc = "sidebar"
    /\ ~WidgetsUsable(df)
    /\ pc' = "crashed"
    /\ rendered' = {"exception"}
    /\ UNCHANGED <<sheet, edits, cache, cachedFrom, calledWith, df, found, date_range,
                   selected_shifts, filtered_df, daily, metrics, shift_daily,
                   shift_totals, day_metrics>>

\* min_date is NaT (no row has a date): st.date_input either raises on it
\* or hands it back, and then no row passes the comparison with it
SidebarNoDate ==
    /\ pc = "sidebar"
    /\ WidgetsUsable(df)
    /\ DatesOf(df) = {}
    /\ \/ /\ pc' = "crashed"
          /\ rendered' = {"exception"}
          /\ UNCHANGED <<date_range, selected_shifts, filtered_df>>
       \/ \E sel \in SUBSET ShiftsOf(df) :
            /\ date_range' = <<NaT, NaT>>
            /\ selected_shifts' = sel
            /\ filtered_df' = Filtered(df, <<NaT, NaT>>, sel)
            /\ rendered' = rendered \cup {"sidebar"}
            /\ pc' = "tab1"
    /\ UNCHANGED <<sheet, edits, cache, cachedFrom, calledWith, df, found, daily, metrics,
                   shift_daily, shift_totals, day_metrics>>

\* the user has picked only the start of the range: date_range[1] raises
SidebarPartial ==
    /\ pc = "sidebar"
    /\ WidgetsUsable(df)
    /\ \E lo \in DatesOf(df) :
         /\ date_range' = <<DateV(lo)>>
         /\ selected_shifts' = ShiftsOf(df)
    /\ pc' = "crashed"
    /\ rendered' = {"exception"}
    /\ UNCHANGED <<sheet, edits, cache, cachedFrom, calledWith, df, found, filtered_df,
                   daily, metrics, shift_daily, shift_totals, day_metrics>>

\* the sidebar filters and filtered_df, for the widgets' values: the
\* defaults (the whole range, every shift) or any choice within them
Sidebar ==
    /\ pc = "sidebar"
    /\ WidgetsUsable(df)
    /\ \E lo \in DatesOf(df), hi \in DatesOf(df), sel \in SUBSET ShiftsOf(df) :
         /\ lo <= hi
         /\ date_range' = <<DateV(lo), DateV(hi)>>
         /\ selected_shifts' = sel
         /\ filtered_df' = Filtered(df, <<DateV(lo), DateV(hi)>>, sel)
    /\ rendered' = rendered \cup {"sidebar"}
    /\ pc' = "tab1"
    /\ UNCHANGED <<sheet, edits, cache, cachedFrom, calledWith, df, found, daily, metrics,
                   shift_daily, shift_totals, day_metrics>>

\* with tab1: daily, the four metrics and the table (a KPI column that
\* holds text cannot be summed and formatted as a number)
Tab1 ==
    /\ pc = "tab1"
    /\ LET g == GroupBy(df, found, filtered_df, <<PosOf(df, T_DATE)>>) IN
         IF KpiNumeric(df, found, filtered_df)
         THEN /\ daily' = g
              /\ metrics' = [k \in 1..4 |-> SumGroups(g, k)]
              /\ rendered' = rendered \cup {"kpi_daily", "table_daily"}
              /\ pc' = "tab2"
         ELSE /\ daily' = daily
              /\ metrics' = metrics
              /\ rendered' = {"exception"}
              /\ pc' = "crashed"
    /\ UNCHANGED <<sheet, edits, cache, cachedFrom, calledWith, df, found, date_range,
                   selected_shifts, filtered_df, shift_daily, shift_totals, day_metrics>>

\* with tab2: shift_daily and shift_totals, a table each
Tab2 ==
    /\ pc = "tab2"
    /\ shift_daily' = GroupBy(df, found, filtered_df, <<PosOf(df, T_DATE), PosOf(df, T_SHIFT)>>)
    /\ shift_totals' = GroupBy(df, found, filtered_df, <<PosOf(df, T_SHIFT)>>)
    /\ rendered' = rendered \cup {"table_shift_daily", "table_shift_totals"}
    /\ pc' = "tab3"
    /\ UNCHANGED <<sheet, edits, cache, cachedFrom, calledWith, df, found, date_range,
                   selected_shifts, filtered_df, daily, metrics, day_metrics>>

\* the rows of day_df for the selectbox's value
DayRows(d, rows, day) ==
    SelectRows(rows, [r \in 1..Len(rows) |-> DateOf(d, rows[r]) = DateV(day)])

\* with tab3: the selected date's metrics and breakdown (the selectbox
\* offers the dates of filtered_df; without any its value is None and
\* day_df is empty)
Tab3 ==
    /\ pc = "tab3"
    /\ LET options == {DateOf(df, filtered_df[r]).n : r \in 1..Len(filtered_df)} IN
         IF options = {}
         THEN day_metrics' = NoSums
         ELSE \E day \in options :
                day_metrics' = KpiSums(df, found, DayRows(df, filtered_df, day))
    /\ rendered' = rendered \cup {"kpi_day", "table_day"}
    /\ pc' = "done"
    /\ UNCHANGED <<sheet, edits, cache, cachedFrom, calledWith, df, found, date_range,
                   selected_shifts, filtered_df, daily, metrics, shift_daily, shift_totals>>

\* Streamlit runs the script again from the top (a widget changed, the page
\* was reloaded): the page and the module-level names start afresh, the
\* cache stays.
Rerun ==
    /\ pc \in {"done", "stopped", "crashed"}
    /\ pc' = "load"
    /\ df' = EmptyDf
    /\ found' = <<>>
    /\ date_range' = <<>>
    /\ selected_shifts' = {}
    /\ filtered_df' = <<>>
    /\ daily' = NoGroups
    /\ metrics' = NoSums
    /\ shift_daily' = NoGroups
    /\ shift_totals' = NoGroups
    /\ day_metrics' = NoSums
    /\ rendered' = {}
    /\ UNCHANGED <<sheet, edits, cache, cachedFrom, calledWith>>

Next ==
    \/ EditSheet
    \/ LoadData
    \/ FindCol
    \/ SidebarRaises
    \/ SidebarNoDate
    \/ SidebarPartial
    \/ Sidebar
    \/ Tab1
    \/ Tab2
    \/ Tab3
    \/ Rerun

Spec == Init /\ [][Next]_vars

\* ----------------------------------------------------------------- claims
\* The script holds a table load_data returned.
Loaded == pc \in {"find", "sidebar", "tab1", "tab2", "tab3", "done", "stopped"}

\* The grid the returned table was computed from, as read_csv read it, and
\* the cells of the grid row a table row came from.
Raw == read_csv(cachedFrom)
RawRow(row) == Raw[row.idx + 1]
RowsOf(d) == {d.rows[r] : r \in 1..Len(d.rows)}

\* Row 3 is also the first row with a DATE or DAY cell: the header row is
\* where both the specification's Header Locator and load_data take it.
\* C1-C5 and C7 are stated for such grids, so that what they find does not
\* rest on where the header row is (C6).
HeaderAgreed(raw) == KeywordRows(raw) # {} /\ FirstKeywordRow(raw) = HEADER_ROW_INDEX

\* The columns of the grid.
GridCols == 1..Len(Raw[HEADER_ROW_INDEX + 1])

RECURSIVE RemoveChars(_, _)
RemoveChars(s, drop) ==
    IF s = <<>> THEN <<>>
    ELSE IF Head(s) \in drop THEN RemoveChars(Tail(s), drop)
    ELSE <<Head(s)>> \o RemoveChars(Tail(s), drop)

\* The number the specification's Cell Typer gives a cell: the text
\* stripped, without commas and currency glyphs, parsed; zero for a missing
\* cell, "nan" and text that is no number.
LocaleNumber(v) ==
    IF v.t # "txt" THEN NumV(0)
    ELSE fillna0(ParseNumber(RemoveChars(StrStrip(v.s), {",", "₹", "$"})))

\* C1: every cell of a numeric column (the columns after the first two) of
\* the returned table is a finite number, the locale-aware value of the
\* cell's text: whitespace, thousands commas and currency glyphs removed,
\* zero for "nan", empty and unparseable text.
C1_LocaleAwareCoercion ==
    (Loaded /\ HeaderAgreed(Raw)) =>
        \A row \in RowsOf(df) : \A c \in GridCols \ {1, 2} :
            row.cells[c] = LocaleNumber(RawRow(row)[c])

\* the k-th header cell's name after deduplication: the second and later
\* occurrence of a name X is X_1, X_2, ...
DedupName(names, c) ==
    LET before == Cardinality({b \in 1..(c - 1) : names[b] = names[c]}) IN
    IF before = 0 THEN names[c] ELSE names[c] \o <<"_", Digits[before + 1]>>

HeaderNames == [c \in GridCols |-> CleanColumn(Raw[HEADER_ROW_INDEX + 1][c])]

\* the header row is agreed and its first two names are DATE and SHIFT, so
\* that load_data adds no column of its own (C7)
PlainHeader(raw) ==
    /\ HeaderAgreed(raw)
    /\ CleanColumn(raw[HEADER_ROW_INDEX + 1][1]) = T_DATE
    /\ CleanColumn(raw[HEADER_ROW_INDEX + 1][2]) = T_SHIFT

\* C2: for every header row, one with repeated labels too, load_data
\* returns a table, and its column names have no duplicates and the count
\* and order of the header cells, a repeated name X renamed X_1, X_2, ...
C2_UniqueColumnNames ==
    /\ "load_data: TypeError" \in rendered => ~PlainHeader(read_csv(calledWith))
    /\ (Loaded /\ PlainHeader(Raw)) =>
        /\ Len(df.columns) = Len(HeaderNames)
        /\ \A c \in GridCols : df.columns[c] = DedupName(HeaderNames, c)
        /\ \A a, b \in 1..Len(df.columns) : a # b => df.columns[a] # df.columns[b]

\* the grid rows below the header and above row i whose date cell is not blank
DatedAbove(i) == {j \in (HEADER_ROW_INDEX + 1)..(i - 1) : Raw[j + 1][1].t # "nan"}

\* C3: a row whose date cell is blank carries, in the returned table, the
\* date of the nearest preceding data row whose date cell is not blank.
C3_ForwardFilledDates ==
    (Loaded /\ HeaderAgreed(Raw)) =>
        \A row \in RowsOf(df) :
            (RawRow(row)[1].t = "nan" /\ DatedAbove(row.idx) # {}) =>
                LET j == CHOOSE x \in DatedAbove(row.idx) : \A y \in DatedAbove(row.idx) : y <= x
                IN DateOf(df, row) = to_datetime(Raw[j + 1][1])

\* C4: every row of the returned table has a valid calendar date in DATE.
C4_OnlyDatedRows ==
    (Loaded /\ HeaderAgreed(Raw)) => \A row \in RowsOf(df) : DateOf(df, row).t = "date"

AllowList == {<<"A">>, <<"B">>, <<"C">>}
InAllowList(v) == v.t = "txt" /\ StrUpper(StrStrip(v.s)) \in AllowList

\* C5: no row whose trimmed, uppercased SHIFT is outside {A, B, C} is in the
\* returned table, nor in filtered_df under the default selection (every
\* shift selected).
C5_AllowListedShifts ==
    /\ (Loaded /\ HeaderAgreed(Raw)) => \A row \in RowsOf(df) : InAllowList(ShiftOf(df, row))
    /\ (pc \in {"tab1", "tab2", "tab3", "done"} /\ HeaderAgreed(Raw)
          /\ selected_shifts = ShiftsOf(df)) =>
          \A r \in 1..Len(filtered_df) : InAllowList(ShiftOf(df, filtered_df[r]))

\* the non-empty rows below grid row h
DataRowsBelow(raw, h) ==
    {i \in (h + 1)..(Len(raw) - 1) : \E c \in 1..Len(raw[i + 1]) : raw[i + 1][c].t # "nan"}

\* the table was built with grid row h as its header row
BuiltFromHeader(h) ==
    /\ h < Len(Raw)
    /\ \A c \in 1..Len(Raw[h + 1]) : df.columns[c] = CleanColumn(Raw[h + 1][c])
    /\ {row.idx : row \in RowsOf(df)} = DataRowsBelow(Raw, h)

C7_CoercionFrame ==
    (Loaded /\ HeaderAgreed(Raw)) =>
        \A row \in RowsOf(df) :
            /\ DateOf(df, row) = to_datetime(RawRow(row)[1])
            /\ ShiftOf(df, row) = TxtV(StrStrip(astype_str(RawRow(row)[2])))
            /\ \A c \in 1..Len(df.columns) :
                 df.columns[c] \notin {T_DATE, T_SHIFT} => row.cells[c].t = "num"

\* C8 as stated: every call returns the normalization of the sheet as it is
\* at the time of the call.
C8_FreshOnEveryCall ==
    Loaded => df = load_data(read_csv(calledWith)).df

\* C8 as amended: the result is memoised.  The first call that returns
\* stores its table; that call and every later one return the normalization
\* of the grid the first one read, whatever the sheet holds by then, and the
\* stored table never changes.  A call that raises stores nothing.
C8_Memoised ==
    [][/\ (pc = "load" /\ pc' = "find") =>
             /\ cache'.filled /\ df' = cache'.val
             /\ df' = load_data(read_csv(cachedFrom')).df
       /\ (pc = "load" /\ pc' = "crashed") =>
             /\ cache' = NoCache
             /\ ~load_data(read_csv(sheet)).ok
       /\ cache.filled => (cache' = cache /\ cachedFrom' = cachedFrom)]_vars

\* a call returned a table that is not the normalization of the sheet
C8_Witness ==
    /\ Loaded
    /\ calledWith # cachedFrom
    /\ load_data(read_csv(calledWith)).ok
    /\ df # load_data(read_csv(calledWith)).df

Widgets == {"sidebar", "kpi_daily", "table_daily", "table_shift_daily",
            "table_shift_totals", "kpi_day", "table_day"}

HasColumn(d, kw) == \E c \in 1..Len(d.columns) : Contains(d.columns[c], kw)

\* C9: when a keyword has no column, find_col shows the error and the run
\* stops: nothing but the error is on the page.  A filter, a metric or a
\* table is on the page only when all four lookups returned a column of df
\* that contains their keyword.
C9_StopOnMissingColumn ==
    /\ (Loaded /\ \E k \in 1..4 : ~HasColumn(df, KpiKeywords[k])) => rendered \subseteq {"error"}
    /\ pc = "stopped" => /\ rendered = {"error"}
                         /\ Len(found) < 4
                         /\ ~HasColumn(df, KpiKeywords[Len(found) + 1])
    /\ "error" \in rendered => pc = "stopped"
    /\ rendered \cap Widgets # {} =>
          /\ Len(found) = 4
          /\ \A k \in 1..4 : /\ Positions(df, found[k]) # {}
                             /\ Contains(found[k], KpiKeywords[k])

\* the run stopped at the fourth lookup
C9_Witness == pc = "stopped" /\ Len(found) = 3 /\ rendered = {"error"}

====
